---- MODULE Spec2Model ----
(***************************************************************************)
(* Kahn's-algorithm dependency resolvers of the repository:                *)
(*   Solution::canFinish  (src/leetcode/Course_Schedule.cpp)               *)
(*   Solution::findOrder  (src/leetcode/Course_Schedule_II.cpp)            *)
(* A behaviour is one call of one of the two functions on one input.       *)
(* A prerequisite pair it = {it[0], it[1]} of the C++ code is the tuple    *)
(* <<it[0], it[1]>>, so the C++ it[0] is it[1] here and it[1] is it[2].    *)
(***************************************************************************)
EXTENDS Integers, Sequences, FiniteSets, TLC

\* Bounds of the checked inputs.
MaxN == 3
MaxPre == 3
MaxChainN == 5

VARIABLES fn, n, pre, pc, adj, indegre, qu, topo, top, k, verdict, order

vars == <<fn, n, pre, pc, adj, indegre, qu, topo, top, k, verdict, order>>

----------------------------------------------------------------------------
\* Helpers on sequences.

Range(s) == {s[x] : x \in DOMAIN s}

Count(s, v) == Cardinality({x \in DOMAIN s : s[x] = v})

Pos(s, v) == CHOOSE x \in DOMAIN s : s[x] = v

Items(n0) == 0 .. (n0 - 1)

Pairs(n0) == Items(n0) \X Items(n0)

RECURSIVE SeqsUpTo(_, _)
SeqsUpTo(S, len) ==
    IF len = 0 THEN {<<>>}
    ELSE LET shorter == SeqsUpTo(S, len - 1)
         IN  shorter \cup {Append(s, e) : s \in {t \in shorter : Len(t) = len - 1}, e \in S}

\* The linear chain 1 after 0, 2 after 1, ..., n0-1 after n0-2.
Chain(n0) == [x \in 1 .. (n0 - 1) |-> <<x, x - 1>>]

Identity(n0) == [x \in 1 .. n0 |-> x - 1]

\* The prerequisite lists of the checked calls: every list of at most MaxPre
\* pairs over [0, n0) for n0 <= MaxN, and the linear chain for n0 <= MaxChainN.
Inputs(n0) ==
    (IF n0 <= MaxN THEN SeqsUpTo(Pairs(n0), MaxPre) ELSE {<<>>}) \cup {Chain(n0)}

----------------------------------------------------------------------------
\* The code of the two functions, as operators.

\* Mutations of canFinish_push: the pushed value is the index itself; the
\* direction of findOrder.
canFinish_push_self(a, it) == [a EXCEPT ![it[1]] = Append(@, it[1])]

canFinish_push_swapped(a, it) == [a EXCEPT ![it[2]] = Append(@, it[1])]

\* adj[it[0]].push_back(it[1])
canFinish_push(a, it) == [a EXCEPT ![it[1]] = Append(@, it[2])]

\* Mutation of findOrder_push: the direction of canFinish.
findOrder_push_swapped(a, it) == [a EXCEPT ![it[1]] = Append(@, it[2])]

\* adj[it[1]].push_back(it[0])
findOrder_push(a, it) == [a EXCEPT ![it[2]] = Append(@, it[1])]

\* vector<vector<int>> adj(n); for(auto it : pre) adj[..].push_back(..)
RECURSIVE canFinish_adj(_, _)
canFinish_adj(n0, p) ==
    IF p = <<>> THEN [x \in Items(n0) |-> <<>>]
    ELSE canFinish_push(canFinish_adj(n0, SubSeq(p, 1, Len(p) - 1)), p[Len(p)])

RECURSIVE findOrder_adj(_, _)
findOrder_adj(n0, p) ==
    IF p = <<>> THEN [x \in Items(n0) |-> <<>>]
    ELSE findOrder_push(findOrder_adj(n0, SubSeq(p, 1, Len(p) - 1)), p[Len(p)])

\* Mutation of CountList: indegre[it] = 1 in place of indegre[it]++.
RECURSIVE CountList_set(_, _)
CountList_set(ind, list) ==
    IF list = <<>> THEN ind
    ELSE CountList_set([ind EXCEPT ![Head(list)] = 1], Tail(list))

\* for(auto it : adj[i]) indegre[it]++   (one list)
RECURSIVE CountList(_, _)
CountList(ind, list) ==
    IF list = <<>> THEN ind
    ELSE CountList([ind EXCEPT ![Head(list)] = @ + 1], Tail(list))

\* vector<int> indegre(n,0); for(int i=0; i<n; i++) for(auto it : adj[i]) indegre[it]++
RECURSIVE CountFrom(_, _, _, _)
CountFrom(i, n0, a, ind) ==
    IF i >= n0 THEN ind ELSE CountFrom(i + 1, n0, a, CountList(ind, a[i]))

\* Mutation of Indegree: an entry of adj[i] equal to i is skipped.
Indegree_noSelf(n0, a) ==
    CountFrom(0, n0, [x \in Items(n0) |-> SelectSeq(a[x], LAMBDA e : e # x)],
              [x \in Items(n0) |-> 0])

Indegree(n0, a) == CountFrom(0, n0, a, [x \in Items(n0) |-> 0])

\* queue<int> qu; for(int i=0; i<n; i++) if(indegre[i] == 0) qu.push(i)
RECURSIVE SeedFrom(_, _, _, _)
SeedFrom(i, n0, ind, q) ==
    IF i >= n0 THEN q
    ELSE SeedFrom(i + 1, n0, ind, IF ind[i] = 0 THEN Append(q, i) ELSE q)

\* Mutation of Seed: the seeding loop runs from n-1 down to 0.
RECURSIVE SeedDown(_, _, _)
SeedDown(i, ind, q) ==
    IF i < 0 THEN q
    ELSE SeedDown(i - 1, ind, IF ind[i] = 0 THEN Append(q, i) ELSE q)

Seed_descending(n0, ind) == SeedDown(n0 - 1, ind, <<>>)

Seed(n0, ind) == SeedFrom(0, n0, ind, <<>>)

\* Mutations of RelaxEdge: the test is indegre[it] == 1; the push is
\* unconditional.
RelaxEdge_offByOne(s, it) ==
    LET ind == [s.indegre EXCEPT ![it] = @ - 1]
    IN  [indegre |-> ind,
         qu      |-> IF ind[it] = 1 THEN Append(s.qu, it) ELSE s.qu]

RelaxEdge_always(s, it) ==
    [indegre |-> [s.indegre EXCEPT ![it] = @ - 1], qu |-> Append(s.qu, it)]

\* indegre[it]--; if(indegre[it] == 0) qu.push(it);
\* s is the pair of locals [indegre, qu].
RelaxEdge(s, it) ==
    LET ind == [s.indegre EXCEPT ![it] = @ - 1]
    IN  [indegre |-> ind,
         qu      |-> IF ind[it] = 0 THEN Append(s.qu, it) ELSE s.qu]

\* for(auto it : adj[top]) { ... }
RECURSIVE RelaxAll(_, _)
RelaxAll(s, list) ==
    IF list = <<>> THEN s ELSE RelaxAll(RelaxEdge(s, Head(list)), Tail(list))

\* while(!qu.empty()) { top = qu.front(); topo.push_back(top); qu.pop(); for ... }
RECURSIVE Drain(_, _, _)
Drain(a, s, t) ==
    IF s.qu = <<>> THEN t
    ELSE Drain(a,
               RelaxAll([indegre |-> s.indegre, qu |-> Tail(s.qu)], a[Head(s.qu)]),
               Append(t, Head(s.qu)))

\* return (topo.size() == n);
canFinish_return(n0, t) == Len(t) = n0

\* Mutation of findOrder_return: topo is returned whatever its length.
findOrder_return_partial(n0, t) == t

\* if(topo.size() == n) return topo; return {};
findOrder_return(n0, t) == IF Len(t) = n0 THEN t ELSE <<>>

\* The whole functions.
canFinish(n0, p) ==
    LET a   == canFinish_adj(n0, p)
        ind == Indegree(n0, a)
    IN  canFinish_return(n0, Drain(a, [indegre |-> ind, qu |-> Seed(n0, ind)], <<>>))

findOrder(n0, p) ==
    LET a   == findOrder_adj(n0, p)
        ind == Indegree(n0, a)
    IN  findOrder_return(n0, Drain(a, [indegre |-> ind, qu |-> Seed(n0, ind)], <<>>))

----------------------------------------------------------------------------
\* One call, step by step.

\* The caller's arguments; no local is constructed yet.
Init ==
    /\ fn \in {"canFinish", "findOrder"}
    /\ n \in 0 .. MaxChainN
    /\ pre \in Inputs(n)
    /\ pc = "build"
    /\ adj = [x \in Items(n) |-> <<>>]
    /\ indegre = [x \in Items(n) |-> 0]
    /\ qu = <<>>
    /\ topo = <<>>
    /\ top = 0
    /\ k = 1
    /\ verdict = FALSE
    /\ order = <<>>

\* Course_Schedule.cpp lines 4-7
canFinish_Build ==
    /\ fn = "canFinish" /\ pc = "build"
    /\ adj' = canFinish_adj(n, pre)
    /\ pc' = "indegree"
    /\ UNCHANGED <<fn, n, pre, indegre, qu, topo, top, k, verdict, order>>

\* Course_Schedule_II.cpp lines 4-7
findOrder_Build ==
    /\ fn = "findOrder" /\ pc = "build"
    /\ adj' = findOrder_adj(n, pre)
    /\ pc' = "indegree"
    /\ UNCHANGED <<fn, n, pre, indegre, qu, topo, top, k, verdict, order>>

\* lines 9-14 of both files
ComputeIndegree ==
    /\ pc = "indegree"
    /\ indegre' = Indegree(n, adj)
    /\ pc' = "seed"
    /\ UNCHANGED <<fn, n, pre, adj, qu, topo, top, k, verdict, order>>

\* lines 15-21 of both files
SeedQueue ==
    /\ pc = "seed"
    /\ qu' = Seed(n, indegre)
    /\ topo' = <<>>
    /\ pc' = "loop"
    /\ UNCHANGED <<fn, n, pre, adj, indegre, top, k, verdict, order>>

\* Mutation of Dequeue: qu.pop() is missing.
Dequeue_noPop ==
    /\ pc = "loop" /\ qu # <<>>
    /\ top' = Head(qu)
    /\ topo' = Append(topo, Head(qu))
    /\ k' = 1
    /\ pc' = "relax"
    /\ UNCHANGED <<fn, n, pre, adj, indegre, qu, verdict, order>>

\* while(!qu.empty()) taken: front, push_back, pop; the inner for starts.
Dequeue ==
    /\ pc = "loop" /\ qu # <<>>
    /\ top' = Head(qu)
    /\ topo' = Append(topo, Head(qu))
    /\ qu' = Tail(qu)
    /\ k' = 1
    /\ pc' = "relax"
    /\ UNCHANGED <<fn, n, pre, adj, indegre, verdict, order>>

\* One iteration of for(auto it : adj[top]).
Relax ==
    /\ pc = "relax" /\ k <= Len(adj[top])
    /\ LET s == RelaxEdge([indegre |-> indegre, qu |-> qu], adj[top][k])
       IN  indegre' = s.indegre /\ qu' = s.qu
    /\ k' = k + 1
    /\ UNCHANGED <<fn, n, pre, pc, adj, topo, top, verdict, order>>

\* The inner for is exhausted: back to the while test.
RelaxDone ==
    /\ pc = "relax" /\ k > Len(adj[top])
    /\ pc' = "loop"
    /\ UNCHANGED <<fn, n, pre, adj, indegre, qu, topo, top, k, verdict, order>>

\* Course_Schedule.cpp line 31
canFinish_Return ==
    /\ fn = "canFinish" /\ pc = "loop" /\ qu = <<>>
    /\ verdict' = canFinish_return(n, topo)
    /\ pc' = "done"
    /\ UNCHANGED <<fn, n, pre, adj, indegre, qu, topo, top, k, order>>

\* Course_Schedule_II.cpp lines 31-32
findOrder_Return ==
    /\ fn = "findOrder" /\ pc = "loop" /\ qu = <<>>
    /\ order' = findOrder_return(n, topo)
    /\ pc' = "done"
    /\ UNCHANGED <<fn, n, pre, adj, indegre, qu, topo, top, k, verdict>>

Next ==
    \/ canFinish_Build
    \/ findOrder_Build
    \/ ComputeIndegree
    \/ SeedQueue
    \/ Dequeue
    \/ Relax
    \/ RelaxDone
    \/ canFinish_Return
    \/ findOrder_Return

Spec == Init /\ [][Next]_vars

\* The call runs on its own thread to completion: some step is always taken
\* while one is enabled.
FairSpec == Spec /\ WF_vars(Next)

----------------------------------------------------------------------------
\* The prerequisite graph, independently of the algorithm.

\* Warshall's closure of the relation R over the items below m.
RECURSIVE Closure(_, _, _)
Closure(R, n0, m) ==
    IF m = 0 THEN R
    ELSE LET R1 == Closure(R, n0, m - 1)
         IN  R1 \cup {e \in Pairs(n0) : <<e[1], m - 1>> \in R1 /\ <<m - 1, e[2]>> \in R1}

\* No item reaches itself along one or more pairs.
Acyclic(n0, p) ==
    \A v \in Items(n0) : <<v, v>> \notin Closure(Range(p), n0, n0)

IsPermutation(s, n0) ==
    Len(s) = n0 /\ \A v \in Items(n0) : Count(s, v) = 1

\* The elements of p at the positions S, in their order in p.
RECURSIVE Select(_, _, _)
Select(p, S, x) ==
    IF x > Len(p) THEN <<>>
    ELSE (IF x \in S THEN <<p[x]>> ELSE <<>>) \o Select(p, S, x + 1)

\* The lists from which p is obtained by repeating some of their pairs.
Unrepeated(p) ==
    {q \in {Select(p, S, 1) : S \in SUBSET DOMAIN p} : Range(q) = Range(p)}

\* The item whose in-degree the pair it feeds, in the running function.
Fed(it) == IF fn = "canFinish" THEN it[2] ELSE it[1]

\* The adjacency entries the draining loop has traversed so far: all entries
\* of every dequeued item, but only the first k-1 of the item being relaxed.
RECURSIVE Traversed(_)
Traversed(x) ==
    IF x = 0 THEN <<>>
    ELSE Traversed(x - 1) \o
         (IF pc = "relax" /\ x = Len(topo)
          THEN SubSeq(adj[topo[x]], 1, k - 1)
          ELSE adj[topo[x]])

Counted == pc \in {"seed", "loop", "relax", "done"}

Draining == pc \in {"loop", "relax", "done"}

----------------------------------------------------------------------------
\* C1: canFinish returns true exactly when the prerequisite graph on the
\* items 0..n-1 is acyclic: when the ready queue is empty, topo has length n
\* iff the graph is a DAG.
Thm_C1 ==
    (pc = "done" /\ fn = "canFinish") =>
        /\ verdict <=> Acyclic(n, pre)
        /\ Len(topo) = n <=> Acyclic(n, pre)

Wit_C1 ==
    /\ pc = "done" /\ fn = "canFinish"
    /\ verdict /\ Len(pre) >= 2 /\ n = 3

\* C2: on acyclic input findOrder returns a permutation of 0..n-1 in which,
\* for every pair (a, b), b stands strictly before a.
Thm_C2 ==
    (pc = "done" /\ fn = "findOrder" /\ Acyclic(n, pre)) =>
        /\ IsPermutation(order, n)
        /\ \A x \in DOMAIN pre : Pos(order, pre[x][2]) < Pos(order, pre[x][1])

Wit_C2 ==
    /\ pc = "done" /\ fn = "findOrder" /\ Acyclic(n, pre)
    /\ n = 3 /\ Len(pre) >= 2 /\ order # Identity(n)

\* C3: findOrder returns a sequence of length n or the empty sequence, never
\* a partial ordering, and the empty sequence whenever the graph has a cycle,
\* even when topo holds some items.
Thm_C3 ==
    (pc = "done" /\ fn = "findOrder") =>
        /\ Len(order) = n \/ order = <<>>
        /\ ~Acyclic(n, pre) => order = <<>> /\ Len(topo) < n
        /\ (n = 2 /\ pre = << <<0, 1>>, <<1, 0>> >>) => order = <<>>

Wit_C3 ==
    /\ pc = "done" /\ fn = "findOrder" /\ ~Acyclic(n, pre)
    /\ Len(topo) > 0 /\ order = <<>>

\* C4: the two functions agree on feasibility: canFinish is true exactly
\* when findOrder returns a sequence of length n, on the same input.
Thm_C4 ==
    /\ (pc = "done" /\ fn = "canFinish") =>
           (verdict <=> Len(findOrder(n, pre)) = n)
    /\ (pc = "done" /\ fn = "findOrder") =>
           (Len(order) = n <=> canFinish(n, pre))

Wit_C4 ==
    /\ pc = "done" /\ fn = "canFinish" /\ ~verdict
    /\ Len(findOrder(n, pre)) # n /\ n = 3 /\ topo # <<>>

\* C5: repeating pairs of the list changes neither canFinish's result nor
\* whether findOrder's result is empty; every list entry raises one in-degree
\* by one and is taken off again exactly once, when its adjacency entry is
\* traversed.
Thm_C5 ==
    /\ (pc = "done" /\ fn = "canFinish") =>
           \A q \in Unrepeated(pre) : canFinish(n, q) = verdict
    /\ (pc = "done" /\ fn = "findOrder") =>
           \A q \in Unrepeated(pre) : (findOrder(n, q) = <<>>) <=> (order = <<>>)
    /\ Counted =>
           \A v \in Items(n) :
               indegre[v] = Cardinality({x \in DOMAIN pre : Fed(pre[x]) = v})
                            - Count(Traversed(Len(topo)), v)

Wit_C5 ==
    /\ pc = "done" /\ fn = "findOrder" /\ order # <<>>
    /\ \E x, y \in DOMAIN pre : x # y /\ pre[x] = pre[y]

\* C6: findOrder's result is fixed by the FIFO tie-break: the queue is seeded
\* in ascending item index, the linear chain (1,0),(2,1),...,(n-1,n-2) (n = 4
\* among them) yields exactly 0,1,...,n-1, and so does the empty list.
Thm_C6 ==
    /\ (fn = "findOrder" /\ pc = "loop" /\ topo = <<>>) =>
           \A x, y \in DOMAIN qu : x < y => qu[x] < qu[y]
    /\ (fn = "findOrder" /\ pc = "done" /\ pre = Chain(n)) => order = Identity(n)
    /\ (fn = "findOrder" /\ pc = "done" /\ pre = <<>>) => order = Identity(n)

Wit_C6 ==
    /\ fn = "findOrder" /\ pc = "done" /\ n = 4
    /\ pre = << <<1, 0>>, <<2, 1>>, <<3, 2>> >>
    /\ order = <<0, 1, 2, 3>>

\* C7: an item a with a self-loop (a, a) keeps an in-degree >= 1 from the
\* moment the in-degree table is computed, is never enqueued nor appended to
\* topo, canFinish returns false and findOrder the empty sequence.
Thm_C7 ==
    \A a \in Items(n) :
        <<a, a>> \in Range(pre) =>
            /\ Counted => indegre[a] >= 1
            /\ a \notin Range(qu) /\ a \notin Range(topo)
            /\ pc = "done" => ~verdict /\ order = <<>> /\ Len(topo) < n

Wit_C7 ==
    /\ pc = "done" /\ topo # <<>>
    /\ \E a \in Items(n) : <<a, a>> \in Range(pre) /\ Len(adj[a]) >= 2

Thm_C9 ==
    /\ <>(pc = "done")
    /\ [](Len(topo) <= n)

Wit_C9 ==
    /\ pc = "done" /\ ~Acyclic(n, pre) /\ qu = <<>>
    /\ Len(topo) > 0 /\ Len(pre) = 3

\* C10 as stated: in canFinish, as in findOrder, for every pair (a, b) the
\* adjacency list of b holds a, the in-degree of an item counts its own
\* prerequisites, and on acyclic input b is appended to topo before a.
Claim_C10 ==
    /\ (pc # "build") =>
           \A x \in DOMAIN pre : Count(adj[pre[x][2]], pre[x][1]) >= 1
    /\ (pc = "seed") =>
           \A v \in Items(n) :
               indegre[v] = Cardinality({x \in DOMAIN pre : pre[x][1] = v})
    /\ (pc = "done" /\ Acyclic(n, pre)) =>
           \A x \in DOMAIN pre : Pos(topo, pre[x][2]) < Pos(topo, pre[x][1])

\* C10 amended: that holds in findOrder; in canFinish the mapping is the
\* reverse one: for every pair (a, b) the adjacency list of a holds b, the
\* in-degree of an item counts the items that depend on it, and on acyclic
\* input a is appended to topo before b.
Thm_C10 ==
    /\ fn = "findOrder" => Claim_C10
    /\ fn = "canFinish" =>
           /\ (pc # "build") =>
                  \A x \in DOMAIN pre : Count(adj[pre[x][1]], pre[x][2]) >= 1
           /\ (pc = "seed") =>
                  \A v \in Items(n) :
                      indegre[v] = Cardinality({x \in DOMAIN pre : pre[x][2] = v})
           /\ (pc = "done" /\ Acyclic(n, pre)) =>
                  \A x \in DOMAIN pre : Pos(topo, pre[x][1]) < Pos(topo, pre[x][2])

Wit_C10 ==
    /\ fn = "canFinish" /\ pc = "done" /\ Acyclic(n, pre)
    /\ pre # <<>> /\ verdict

====
